---- MODULE Spec2Model ----
(***************************************************************************)
(* A model of sphinxcontrib.autojsdoc (src/sphinxcontrib/autojsdoc/        *)
(* __init__.py): the doclet objects built from structure.json, the merge   *)
(* and link passes of AutoDirective.merge_doclets / make_forest, the       *)
(* per-kind run methods that append lines to the directive's content, the  *)
(* cross-reference lookup, and AutoDirective.run with the module-level     *)
(* cache loaded_structure_files.                                           *)
(*                                                                         *)
(* Conventions.  A Python str is a sequence of TLA+ strings.  Data read    *)
(* from structure.json is spelled one character per element; the literals  *)
(* of the program, and the words "module:" and "<anonymous>", are single   *)
(* elements.  A Python object whose attributes live in __dict__ is a       *)
(* record whose DOMAIN is the set of attributes present, so "'meta' in     *)
(* self" is "meta" \in DOMAIN o.  Object identity is the position of the   *)
(* record in the flat list read from the file; parent, children and the    *)
(* two indexes hold such positions.  A dict is a function.  The kinds      *)
(* constant, file and package are not part of the input universe.          *)
(***************************************************************************)
EXTENDS Integers, Sequences, FiniteSets, Bags, TLC

VARIABLES
    doclets,                 \* merge_doclets: the flat list handed to the call
    ret,                     \* merge_doclets: what the call left behind
    disk,                    \* the file system: path -> flat list of raw records
    config,                  \* env.config: the autojsdoc_* values of conf.py
    loaded_structure_files,  \* the module-level cache, path -> triple
    reads,                   \* how often each path was opened and parsed
    directive,               \* the AutoDirective of the latest invocation
    log,                     \* what the latest invocation sent to the logger
    raised                   \* the exception that escaped from the latest run

vars == <<doclets, ret, disk, config, loaded_structure_files, reads,
          directive, log, raised>>

-----------------------------------------------------------------------------
(* Bounds of the model.                                                    *)

MaxDoclets == 3

-----------------------------------------------------------------------------
(* Python values.                                                          *)

None == <<"None">>        \* None where a str is expected

NoDoclet == 0             \* None where a doclet (a position) is expected

NAME == "autojsdoc"

NoException == "no exception"

EmptyDict == [x \in {} |-> x]

\* the grave accent, which a TLA+ string cannot hold
backquote == "GRAVE ACCENT"

\* the characters that occur in the data, in code point order
CodePoints ==
    <<" ", ".", "/", ":", "<anonymous>", "A", "M", "\\", "a", "b", "c",
      "d", "f", "h", "l", "module:", "n", "u", "x", "|">>

ord(c) == CHOOSE i \in 1..Len(CodePoints) : CodePoints[i] = c

\* str.__lt__: the order sorted () uses on the longname keys
str_lt(s, t) ==
    \E k \in 1..(Len(s) + 1) :
        /\ k <= Len(t)
        /\ \A i \in 1..(k - 1) : s[i] = t[i]
        /\ (k = Len(s) + 1 \/ ord(s[k]) < ord(t[k]))

\* str.replace (old, new) for a one-character old
RECURSIVE str_replace(_, _, _)
str_replace(s, old, new) ==
    IF s = <<>> THEN <<>>
    ELSE (IF Head(s) = old THEN new ELSE <<Head(s)>>)
         \o str_replace(Tail(s), old, new)

\* sep.join (parts)
RECURSIVE str_join(_, _)
str_join(sep, parts) ==
    IF parts = <<>> THEN <<>>
    ELSE IF Len(parts) = 1 THEN parts[1]
    ELSE parts[1] \o sep \o str_join(sep, Tail(parts))

\* needle in s
str_contains(s, needle) ==
    \E i \in 0..(Len(s) - Len(needle)) :
        \A j \in 1..Len(needle) : s[i + j] = needle[j]

\* '%d' % n
str_d(n) == <<ToString(n)>>

os_path_join(path, filename) ==
    IF filename # <<>> /\ Head(filename) = "/" THEN filename
    ELSE IF path = <<>> \/ path[Len(path)] = "/" THEN path \o filename
    ELSE path \o <<"/">> \o filename

bs(link) == str_replace(link, "\\", <<"\\", "\\">>)

\* text.strip () for the whitespace of the data, then runs of it to one space
RECURSIVE lstrip(_)
lstrip(s) == IF s # <<>> /\ Head(s) = " " THEN lstrip(Tail(s)) ELSE s

RECURSIVE rstrip(_)
rstrip(s) ==
    IF s # <<>> /\ s[Len(s)] = " " THEN rstrip(SubSeq(s, 1, Len(s) - 1)) ELSE s

RECURSIVE collapse(_)
collapse(s) ==
    IF s = <<>> THEN <<>>
    ELSE IF Head(s) = " " THEN <<" ">> \o collapse(lstrip(s))
    ELSE <<Head(s)>> \o collapse(Tail(s))

normalize_space(text) == collapse(rstrip(lstrip(text)))

strip_directive(name) ==
    IF name # <<>> /\ Head(name) = "js:auto" THEN Tail(name) ELSE name

-----------------------------------------------------------------------------
(* The record model: obj, Obj and its subclasses.                          *)

\* obj.__init__: the attributes of d, nothing else
obj_init(d) == d

\* Obj.__init__: defaults, then the attributes of d, then parent and children
Obj_init(d) ==
    [parent |-> NoDoclet, children |-> <<>>]
    @@ d
    @@ [ignore |-> FALSE, undocumented |-> FALSE, longname |-> None,
        name |-> None, memberof |-> None, description |-> <<>>]

JSSee_init(d) == Obj_init(d @@ [link |-> <<>>])

JSWithTypes_init(d) == Obj_init(d @@ [type |-> [names |-> <<>>]])

JSCallable_init(d) == Obj_init(d @@ [params |-> <<>>, returns |-> <<>>])

\* AutoDirective.vtable and the class each entry names
vtable ==
    [class |-> "JSClass", function |-> "JSFunction", member |-> "JSAttribute",
     method |-> "JSMethod", module |-> "JSModule"]

obj_factory(d) ==
    IF "kind" \notin DOMAIN d THEN obj_init(d)
    ELSE LET cls == IF d.kind \in DOMAIN vtable THEN vtable[d.kind] ELSE "Obj"
         IN  [cls |-> cls] @@
             (CASE cls \in {"JSFunction", "JSMethod"} -> JSCallable_init(d)
                [] cls = "JSAttribute" -> JSWithTypes_init(d)
                [] OTHER -> Obj_init(d))

\* json.load (fp, object_hook = obj_factory) on the top-level list
json_load(records) == [i \in 1..Len(records) |-> obj_factory(records[i])]

doc(o) == ~ o.undocumented

\* Obj.get_source_line: own meta, else the closest ancestor's, else unknown
RECURSIVE get_source_line(_, _)
get_source_line(heap, o) ==
    IF "meta" \in DOMAIN o
    THEN <<os_path_join(o.meta.path, o.meta.filename), o.meta.lineno>>
    ELSE IF o.parent # NoDoclet THEN get_source_line(heap, heap[o.parent])
    ELSE <<(<<"<unknown>">>), 0>>

\* the location = '%s:%d' % self.get_source_line () of Obj.error and Obj.warn
location(heap, o) ==
    LET sl == get_source_line(heap, o) IN sl[1] \o <<":">> \o str_d(sl[2])

Obj_error(heap, o, msg) ==
    SetToBag({[level |-> "error", msg |-> msg, location |-> location(heap, o)]})

Obj_warn(heap, o, msg) ==
    SetToBag({[level |-> "warning", msg |-> msg, location |-> location(heap, o)]})

-----------------------------------------------------------------------------
(* The forest builder: check_params, make_forest, merge_doclets.  The      *)
(* state threaded through the loops is the directive's two dicts           *)
(* (self.names, self.longnames), the objects (heap), the list built so     *)
(* far, what was logged, and the exception raised, if any.                 *)

Range(f) == {f[x] : x \in DOMAIN f}

\* the AttributeError branches of the try block of check_params
params_known(o) ==
    /\ "params" \in DOMAIN o
    /\ \A i \in 1..Len(o.params) : "name" \in DOMAIN o.params[i]
    /\ "meta" \in DOMAIN o
    /\ "code" \in DOMAIN o.meta
    /\ "paramnames" \in DOMAIN o.meta.code

RECURSIVE warn_each(_, _, _, _)
warn_each(heap, o, text, names) ==
    IF names = {} THEN EmptyBag
    ELSE LET n == CHOOSE n \in names : TRUE
         IN  Obj_warn(heap, o, text[1] \o n \o text[2])
             (+) warn_each(heap, o, text, names \ {n})

\* what check_params logs for the doclet (it returns the doclet unchanged)
check_params(heap, o) ==
    IF o.undocumented \/ ~ params_known(o) THEN EmptyBag
    ELSE LET param_names == {o.params[i].name : i \in 1..Len(o.params)}
             meta_param_names == Range(o.meta.code.paramnames)
         IN  warn_each(heap, o,
                       <<(<<"Documented parameter ">>),
                         (<<" not found on signature">>)>>,
                       param_names \ meta_param_names)
             (+) warn_each(heap, o, <<(<<"Undocumented parameter ">>), (<<>>)>>,
                           meta_param_names \ param_names)

\* make_forest_step without the o.doc () test before the report
make_forest_step_always_reports(st, r) ==
    LET o == st.heap[r] IN
    IF o.memberof = None THEN st
    ELSE IF o.memberof \in DOMAIN st.longnames
    THEN LET p == st.longnames[o.memberof]
             linked == [st.heap EXCEPT ![r].parent = p]
         IN  [st EXCEPT !.heap =
                 [linked EXCEPT ![p].children = Append(@, r)]]
    ELSE [st EXCEPT !.log = @ (+) Obj_error(st.heap, o,
             <<"Could not link up object ">> \o o.longname \o <<" to ">>
             \o o.memberof)]

\* make_forest_step that links only to a parent seen earlier in the list, as
\* a single pass over the input would
make_forest_step_seen_before(st, r) ==
    LET o == st.heap[r] IN
    IF o.memberof = None THEN st
    ELSE IF o.memberof \in DOMAIN st.longnames
            /\ st.longnames[o.memberof] < r
    THEN LET p == st.longnames[o.memberof]
             linked == [st.heap EXCEPT ![r].parent = p]
         IN  [st EXCEPT !.heap =
                 [linked EXCEPT ![p].children = Append(@, r)]]
    ELSE IF doc(o)
    THEN [st EXCEPT !.log = @ (+) Obj_error(st.heap, o,
             <<"Could not link up object ">> \o o.longname \o <<" to ">>
             \o o.memberof)]
    ELSE st

\* one iteration of the loop of make_forest, for the doclet at position r
make_forest_step(st, r) ==
    LET o == st.heap[r] IN
    IF o.memberof = None THEN st
    ELSE IF o.memberof \in DOMAIN st.longnames
    THEN LET p == st.longnames[o.memberof]
             linked == [st.heap EXCEPT ![r].parent = p]
         IN  [st EXCEPT !.heap =
                 [linked EXCEPT ![p].children = Append(@, r)]]
    ELSE IF doc(o)
    THEN IF o.memberof = <<"<anonymous>">>
         THEN [st EXCEPT !.log = @ (+) Obj_error(st.heap, o,
                  <<"Could not link up object ">> \o o.longname \o <<" to ">>
                  \o o.memberof
                  \o <<". Try giving the anonymous object an @alias.">>)]
         ELSE [st EXCEPT !.log = @ (+) Obj_error(st.heap, o,
                  <<"Could not link up object ">> \o o.longname \o <<" to ">>
                  \o o.memberof)]
    ELSE st

RECURSIVE make_forest_from(_, _, _)
make_forest_from(st, list, i) ==
    IF i > Len(list) THEN st
    ELSE make_forest_from(make_forest_step(st, list[i]), list, i + 1)

make_forest(st, list) == make_forest_from(st, list, 1)

\* the else branch of merge_doclets: fold the doclet at r into the kept one
\* fold_text with "=" where the code has "&="
fold_text_last_wins(last_doclet, doclet) ==
    [last_doclet EXCEPT
        !.undocumented = doclet.undocumented,
        !.comment      = @ \o doclet.comment,
        !.description  = @ \o doclet.description]

fold_text(last_doclet, doclet) ==
    [last_doclet EXCEPT
        !.undocumented = (@ /\ doclet.undocumented),
        !.comment      = @ \o doclet.comment,
        !.description  = @ \o doclet.description]

fold(last_doclet, doclet) ==
    [meta |-> doclet.meta] @@ fold_text(last_doclet, doclet)

\* merge_step that keeps every doclet, merged or not
merge_step_keeps_all(st, r) ==
    LET doclet == st.heap[r] IN
    IF doclet.longname \notin DOMAIN st.longnames
    THEN [st EXCEPT
            !.longnames = (doclet.longname :> r) @@ @,
            !.names     = (doclet.name :> r) @@ @,
            !.merged    = Append(@, r)]
    ELSE [st EXCEPT !.merged = Append(@, r)]

\* one iteration of the loop of merge_doclets, for the doclet at position r
merge_step(st, r) ==
    LET doclet == st.heap[r] IN
    IF doclet.longname \notin DOMAIN st.longnames
    THEN \* setdefault stored the doclet itself: first time seen
         [st EXCEPT
            !.longnames = (doclet.longname :> r) @@ @,
            !.names     = (doclet.name :> r) @@ @,
            !.log       = @ (+) check_params(st.heap, doclet),
            !.merged    = Append(@, r)]
    ELSE LET last == st.longnames[doclet.longname] IN
         IF "meta" \notin DOMAIN doclet
         THEN \* doclet.meta raises after the three updates before it
              [st EXCEPT !.heap = [@ EXCEPT ![last] = fold_text(@, doclet)],
                         !.raised = "AttributeError"]
         ELSE [st EXCEPT !.heap = [@ EXCEPT ![last] = fold(@, doclet)]]

RECURSIVE merge_from(_, _)
merge_from(st, i) ==
    IF i > Len(st.heap) \/ st.raised # NoException THEN st
    ELSE merge_from(merge_step(st, i), i + 1)

\* merge_doclets on a directive whose names and longnames run has just set
\* to {}: the objects, the directive's dicts and the log as the call leaves
\* them, and the triple it returns (merged, names, longnames), where names
\* and longnames are the locals of lines 592-593
merge_doclets(objs) ==
    LET start == [heap |-> objs, names |-> EmptyDict, longnames |-> EmptyDict,
                  merged |-> <<>>, log |-> EmptyBag, raised |-> NoException]
        looped == merge_from(start, 1)
        linked == IF looped.raised # NoException THEN looped
                  ELSE make_forest(looped, looped.merged)
    IN  [heap |-> linked.heap,
         self_names |-> linked.names,
         self_longnames |-> linked.longnames,
         log |-> linked.log,
         raised |-> linked.raised,
         merged |-> linked.merged,
         names |-> EmptyDict,
         longnames |-> EmptyDict]

-----------------------------------------------------------------------------
(* The directive's options and configuration, and the cross-reference      *)
(* lookup.  An option value is tagged with its Python type, because        *)
(* get_opt and JSModule.run test truthiness, "is True" and isinstance.     *)

PyNone == [type |-> "NoneType"]
PyStr(s) == [type |-> "str", value |-> s]
PyBool(b) == [type |-> "bool", value |-> b]
PyList(l) == [type |-> "list", value |-> l]

truthy(v) ==
    CASE v.type = "NoneType" -> FALSE
      [] v.type = "bool" -> v.value
      [] OTHER -> v.value # <<>>

\* dict.get (key)
dict_get(d, key) == IF key \in DOMAIN d THEN d[key] ELSE PyNone

\* the value get_opt computes: options.get (name) or config.autojsdoc_<name>
get_opt(dir, name) ==
    IF truthy(dict_get(dir.options, name)) THEN dir.options[name]
    ELSE dir.config[name]

\* whether get_opt (name, required) raises AutoJSDocError
get_opt_raises(dir, name, required) == required /\ ~ truthy(get_opt(dir, name))

xref_table ==
    [class |-> "js:class", constant |-> "js:data", function |-> "js:func",
     member |-> "js:attr", method |-> "js:meth", module |-> "js:mod"]

\* AutoDirective.xref with the directive's current names and longnames
xref(dir, name) ==
    LET found == name \in DOMAIN dir.longnames \/ name \in DOMAIN dir.names
        kind == IF name \in DOMAIN dir.longnames
                THEN dir.heap[dir.longnames[name]].kind
                ELSE dir.heap[dir.names[name]].kind
    IN  IF found
        THEN <<":", xref_table[kind], ":", backquote>> \o name \o <<backquote>>
        ELSE name

-----------------------------------------------------------------------------
(* Rendering.  A line of directive.content is [text, source, by]: the      *)
(* text, the source given to StringList.append, and, as bookkeeping that   *)
(* the program does not store, the object whose method appended the line   *)
(* (<<r>> for the doclet at position r, <<r, "params", i>> for the         *)
(* JSArgument made from its i-th parameter, likewise "returns").           *)

spaces(n) == [i \in 1..n |-> " "]

RECURSIVE str_splitlines(_)
str_splitlines(text) ==
    IF text = <<>> THEN <<>>
    ELSE IF \A i \in 1..Len(text) : text[i] # "\n" THEN <<text>>
    ELSE LET k == CHOOSE i \in 1..Len(text) :
                      /\ text[i] = "\n"
                      /\ \A j \in 1..(i - 1) : text[j] # "\n"
         IN  <<SubSeq(text, 1, k - 1)>>
             \o str_splitlines(SubSeq(text, k + 1, Len(text)))

splitlines(text, indent) ==
    LET ls == str_splitlines(text)
    IN  [i \in 1..Len(ls) |-> spaces(indent) \o ls[i]]

nl(by) == <<[text |-> <<>>, source |-> <<>>, by |-> by]>>

\* Obj.append with every line given a tag that names no source location
append_untagged(heap, by, o, text, indent) ==
    LET ls == splitlines(text, indent)
    IN  [i \in 1..Len(ls) |->
            [text |-> ls[i], source |-> <<":<", NAME, ">">>, by |-> by]]

append(heap, by, o, text, indent) ==
    LET sl == get_source_line(heap, o)
        ls == splitlines(text, indent)
    IN  [i \in 1..Len(ls) |->
            [text |-> ls[i],
             source |-> sl[1] \o <<":">> \o str_d(sl[2]) \o <<":<", NAME, ">">>,
             by |-> by]]

get_description(o) == normalize_space(o.description)

append_desc(heap, by, o, indent) ==
    append(heap, by, o, get_description(o), indent) \o nl(by)

underscore(heap, by, o, text, char, indent) ==
    append(heap, by, o, text, indent)
    \o append(heap, by, o, [i \in 1..Len(text) |-> char], indent)
    \o nl(by)

\* get_types that puts a backslash before the pipe
get_types_escaped_pipe(o) == bs(str_join(<<"\\", "|">>, o.type.names))

get_types(o) == bs(str_join(<<"|">>, o.type.names))

JSArgument_run(dir, by, param, indent) ==
    LET o == JSWithTypes_init(param)
    IN  append(dir.heap, by, o,
               <<":param ">> \o get_types(o) \o <<" ">> \o o.name \o <<": ">>
               \o get_description(o), indent)

JSReturns_run(dir, by, r, indent) ==
    LET o == JSWithTypes_init(r)
        desc == get_description(o)
        types == get_types(o)
    IN  (IF desc # <<>>
         THEN append(dir.heap, by, o, <<":returns: ">> \o desc, indent)
         ELSE <<>>)
        \o (IF types # <<>>
            THEN append(dir.heap, by, o, <<":rtype: ">> \o xref(dir, types), indent)
            ELSE <<>>)

RECURSIVE each_param(_, _, _, _, _)
each_param(dir, r, params, i, indent) ==
    IF i > Len(params) THEN <<>>
    ELSE JSArgument_run(dir, <<r, "params", i>>, params[i], indent)
         \o each_param(dir, r, params, i + 1, indent)

RECURSIVE each_return(_, _, _, _, _)
each_return(dir, r, returns, i, indent) ==
    IF i > Len(returns) THEN <<>>
    ELSE JSReturns_run(dir, <<r, "returns", i>>, returns[i], indent)
         \o each_return(dir, r, returns, i + 1, indent)

get_signature(o) ==
    o.name \o <<" (">>
    \o str_join(<<", ">>, [i \in 1..Len(o.params) |-> o.params[i].name])
    \o <<")">>

JSCallable_run(dir, r, indent) ==
    LET o == dir.heap[r] IN
    append_desc(dir.heap, <<r>>, o, indent + 3)
    \o each_param(dir, r, o.params, 1, indent + 3) \o nl(<<r>>)
    \o each_return(dir, r, o.returns, 1, indent + 3) \o nl(<<r>>)

JSVariable_run(dir, r, indent) ==
    LET o == dir.heap[r]
        types == get_types(o)
    IN  (IF types # <<>>
         THEN append(dir.heap, <<r>>, o,
                     <<"(">> \o xref(dir, types) \o <<")">>, indent + 3)
         ELSE <<>>)
        \o append_desc(dir.heap, <<r>>, o, indent + 3)

\* the run method of the doclet at position r, by its class
RECURSIVE run(_, _, _)
RECURSIVE each_child(_, _, _, _, _)

\* for c in children: [if c.get_name () in members:] c.run (directive, indent)
each_child(dir, children, i, named, indent) ==
    IF i > Len(children) THEN <<>>
    ELSE (IF named.type = "NoneType"
             \/ dir.heap[children[i]].name \in Range(named.value)
          THEN run(dir, children[i], indent) ELSE <<>>)
         \o each_child(dir, children, i + 1, named, indent)

Obj_run(dir, r, indent) ==
    each_child(dir, dir.heap[r].children, 1, PyNone, indent) \o nl(<<r>>)

JSClass_run(dir, r, indent) ==
    LET o == dir.heap[r] IN
    IF doc(o)
    THEN append(dir.heap, <<r>>, o, <<".. js:class:: ">> \o o.name, indent)
         \o nl(<<r>>)
         \o append_desc(dir.heap, <<r>>, o, indent + 3)
         \o Obj_run(dir, r, indent + 3)
    ELSE <<>>

JSFunction_run(dir, r, indent) ==
    LET o == dir.heap[r] IN
    IF doc(o)
    THEN append(dir.heap, <<r>>, o,
                <<".. js:function:: ">> \o get_signature(o), indent)
         \o nl(<<r>>)
         \o JSCallable_run(dir, r, indent)
    ELSE <<>>

JSMethod_run(dir, r, indent) ==
    LET o == dir.heap[r] IN
    IF doc(o)
    THEN append(dir.heap, <<r>>, o,
                <<".. js:method:: ">> \o get_signature(o), indent)
         \o nl(<<r>>)
         \o JSCallable_run(dir, r, indent)
    ELSE <<>>

JSAttribute_run(dir, r, indent) ==
    LET o == dir.heap[r] IN
    IF doc(o)
    THEN append(dir.heap, <<r>>, o, <<".. js:attribute:: ">> \o o.name, indent)
         \o nl(<<r>>)
         \o JSVariable_run(dir, r, indent)
    ELSE <<>>

JSModule_run(dir, r, indent) ==
    LET o == dir.heap[r]
        module == IF o.longname # <<>> /\ Head(o.longname) = "module:"
                  THEN Tail(o.longname) ELSE o.longname
        members == get_opt(dir, "members")
    IN  append(dir.heap, <<r>>, o, <<".. js:module:: ">> \o module, indent)
        \o nl(<<r>>)
        \o (IF truthy(get_opt(dir, "title"))
            THEN underscore(dir.heap, <<r>>, o, module, "-", indent) \o nl(<<r>>)
            ELSE <<>>)
        \o append_desc(dir.heap, <<r>>, o, indent)
        \o (IF members.type = "bool" /\ members.value
            THEN Obj_run(dir, r, indent) ELSE <<>>)
        \o (IF members.type = "list"
            THEN each_child(dir, o.children, 1, members, indent)
            ELSE <<>>)

run(dir, r, indent) ==
    LET cls == dir.heap[r].cls IN
    CASE cls = "JSClass" -> JSClass_run(dir, r, indent)
      [] cls = "JSFunction" -> JSFunction_run(dir, r, indent)
      [] cls = "JSMethod" -> JSMethod_run(dir, r, indent)
      [] cls = "JSAttribute" -> JSAttribute_run(dir, r, indent)
      [] cls = "JSModule" -> JSModule_run(dir, r, indent)
      [] OTHER -> Obj_run(dir, r, indent)

\* JSSee (d).run (directive, indent); by is <<0, "see">>
JSSee_run(dir, d, indent) ==
    LET o == JSSee_init(d)
        link == IF str_contains(o.link, <<":", "/", "/">>) THEN o.link
                ELSE xref(dir, o.link)
    IN  append(dir.heap, <<0, "see">>, o,
               <<"See: ">> \o link \o <<" ">> \o get_description(o), indent)
        \o nl(<<0, "see">>)

-----------------------------------------------------------------------------
(* AutoDirective.run: option lookup, the cache, the selection loop.        *)

\* re.compile (argument).search (text) for patterns made of literal
\* characters, ".", a postfix "*", a leading "^" and a trailing "$"
RECURSIVE match_here(_, _)
match_here(re, text) ==
    IF re = <<>> THEN TRUE
    ELSE IF Len(re) >= 2 /\ re[2] = "*"
    THEN \E k \in 0..Len(text) :
            /\ \A i \in 1..k : re[1] = "." \/ re[1] = text[i]
            /\ match_here(SubSeq(re, 3, Len(re)), SubSeq(text, k + 1, Len(text)))
    ELSE IF re = <<"$">> THEN text = <<>>
    ELSE /\ text # <<>>
         /\ re[1] = "." \/ re[1] = text[1]
         /\ match_here(Tail(re), Tail(text))

re_search(re, text) ==
    IF re # <<>> /\ re[1] = "^" THEN match_here(Tail(re), text)
    ELSE \E k \in 0..Len(text) : match_here(re, SubSeq(text, k + 1, Len(text)))

\* sorted (doclets, key = operator.attrgetter ('longname')): a stable sort
RECURSIVE insert_sorted(_, _, _)
insert_sorted(heap, list, r) ==
    IF list = <<>> THEN <<r>>
    ELSE IF str_lt(heap[r].longname, heap[Head(list)].longname)
    THEN <<r>> \o list
    ELSE <<Head(list)>> \o insert_sorted(heap, Tail(list), r)

RECURSIVE sort_from(_, _, _)
sort_from(heap, list, i) ==
    IF i = 0 THEN <<>>
    ELSE insert_sorted(heap, sort_from(heap, list, i - 1), list[i])

\* sorted that leaves the matches in the order of the file
sorted_unsorted(heap, list) == list

sorted(heap, list) == sort_from(heap, list, Len(list))

\* the generator of lines 654-659, consumed by sorted () before any d.run
\* of this argument, with the filter "d.longname not in visited" left out
grep_forgets_visited(dir, objtype, argument, visited) ==
    SelectSeq(dir.doclets,
              LAMBDA r : /\ <<dir.heap[r].kind>> = objtype
                         /\ re_search(argument, dir.heap[r].longname))

grep(dir, objtype, argument, visited) ==
    SelectSeq(dir.doclets,
              LAMBDA r : /\ <<dir.heap[r].kind>> = objtype
                         /\ re_search(argument, dir.heap[r].longname)
                         /\ dir.heap[r].longname \notin visited)

\* for d in sorted (...): visited.add (d.longname); d.run (self, 0)
RECURSIVE render_each(_, _, _, _)
render_each(dir, list, i, a) ==
    IF i > Len(list) THEN dir
    ELSE render_each(
            [dir EXCEPT
                !.visited = @ \cup {dir.heap[list[i]].longname},
                !.calls   = Append(@, <<a, list[i]>>),
                !.content = @ \o run(dir, list[i], 0)],
            list, i + 1, a)

\* for argument in self.arguments: ...
RECURSIVE render_from(_, _, _)
render_from(dir, objtype, a) ==
    IF a > Len(dir.arguments) THEN dir
    ELSE render_from(
            render_each(dir,
                        sorted(dir.heap,
                               grep(dir, objtype, dir.arguments[a], dir.visited)),
                        1, a),
            objtype, a + 1)

\* lines 613-615 and 623: the directive as run starts; calls (which d.run
\* the loop made, for which argument) is bookkeeping the program does not
\* store
\* hit (whether line 639 found the path cached) and see (the records that
\* JSSee_call rendered with the directive) are bookkeeping too
new_directive(name, arguments, options) ==
    [name |-> name, arguments |-> arguments, options |-> options,
     config |-> config, doclets |-> <<>>, names |-> EmptyDict,
     longnames |-> EmptyDict, heap |-> <<>>, content |-> <<>>,
     visited |-> {}, calls |-> <<>>, hit |-> FALSE, see |-> <<>>]

\* lines 639-643 for a path that is not cached: what open, json.load and
\* merge_doclets leave behind
load(path) ==
    IF path \notin DOMAIN disk
    THEN [raised |-> "FileNotFoundError", opened |-> FALSE, log |-> EmptyBag]
    ELSE [opened |-> TRUE] @@ merge_doclets(json_load(disk[path]))

\* the cached branch: nothing is opened, nothing is merged
load_skipped(path) ==
    [raised |-> NoException, opened |-> FALSE, log |-> EmptyBag,
     merged |-> <<>>, names |-> EmptyDict, longnames |-> EmptyDict,
     heap |-> <<>>]

\* the test of line 639 that never finds the path cached
is_cached_never(path) == FALSE

is_cached(path) == path \in DOMAIN loaded_structure_files

\* one invocation of the directive, from the call of run to its return or
\* to the exception that leaves it.  parse_ok: whether the host's
\* nested_parse_with_titles accepts the content.
AutoDirective_run(name, arguments, options, parse_ok) ==
    LET self == new_directive(name, arguments, options)
        structure_json == get_opt(self, "structure_json").value
        cached == is_cached(structure_json)
    IN
    /\ raised = NoException
    /\ IF get_opt_raises(self, "structure_json", TRUE)
       THEN /\ raised' = "AutoJSDocError"
            /\ directive' = self
            /\ log' = EmptyBag
            /\ UNCHANGED <<loaded_structure_files, reads>>
       ELSE \E fresh \in {IF cached THEN load_skipped(structure_json)
                          ELSE load(structure_json)} :
            IF fresh.raised # NoException
            THEN /\ raised' = fresh.raised
                 /\ directive' =
                        IF fresh.opened
                        THEN [self EXCEPT !.names = fresh.self_names,
                                          !.longnames = fresh.self_longnames,
                                          !.heap = fresh.heap]
                        ELSE self
                 /\ log' = fresh.log
                 /\ reads' = IF fresh.opened
                             THEN [reads EXCEPT ![structure_json] = @ + 1]
                             ELSE reads
                 /\ UNCHANGED loaded_structure_files
            ELSE \E triple \in {IF cached
                                THEN loaded_structure_files[structure_json]
                                ELSE [doclets |-> fresh.merged,
                                      names |-> fresh.names,
                                      longnames |-> fresh.longnames,
                                      heap |-> fresh.heap]} :
                 /\ loaded_structure_files' =
                        (structure_json :> triple) @@ loaded_structure_files
                 /\ reads' = IF fresh.opened
                             THEN [reads EXCEPT ![structure_json] = @ + 1]
                             ELSE reads
                 /\ directive' =
                        render_from([self EXCEPT !.hit = cached,
                                                 !.doclets = triple.doclets,
                                                 !.names = triple.names,
                                                 !.longnames = triple.longnames,
                                                 !.heap = triple.heap],
                                    strip_directive(name), 1)
                 /\ IF parse_ok
                    THEN /\ raised' = NoException
                         /\ log' = fresh.log
                    ELSE /\ raised' = "Exception"
                         /\ log' = fresh.log
                                   (+) SetToBag({[level |-> "error",
                                                  msg |-> <<"content.pprint ()">>,
                                                  location |-> <<>>]})
    /\ UNCHANGED <<doclets, ret, disk, config>>

\* JSSee (d).run (directive, 0) on the directive of a completed invocation
JSSee_call(d) ==
    /\ raised = NoException
    /\ "see" \in DOMAIN directive
    /\ directive.see = <<>>
    /\ directive' = [directive EXCEPT
                        !.content = @ \o JSSee_run(directive, d, 0),
                        !.see = <<d>>]
    /\ UNCHANGED <<doclets, ret, disk, config, loaded_structure_files, reads,
                   log, raised>>

-----------------------------------------------------------------------------
(* The raw records of structure.json used as inputs.  JSDoc writes         *)
(* longname, name, kind and comment on every doclet, memberof on members,  *)
(* undocumented only when true, description only when documented.          *)

Seqs(S, n) == UNION {[1..k -> S] : k \in 0..n}

Optional(present, field) == IF present THEN field ELSE EmptyDict

meta_of(lineno, code) ==
    [path |-> <<"/", "s">>, filename |-> <<"f">>, lineno |-> lineno,
     code |-> code]

\* a class "a" or a function "b (x)" whose signature is (x, c)
MergeRecord(ln, memberof, undocumented, has_meta) ==
    [longname |-> ln, name |-> ln, comment |-> <<"c">>,
     kind |-> IF ln = <<"a">> THEN "class" ELSE "function"]
    @@ Optional(memberof # None, [memberof |-> memberof])
    @@ Optional(undocumented, [undocumented |-> TRUE])
    @@ Optional(~ undocumented, [description |-> <<"d">>])
    @@ Optional(ln = <<"b">>, [params |-> <<[name |-> <<"x">>]>>])
    @@ Optional(has_meta,
                [meta |-> meta_of(IF undocumented THEN 2 ELSE 1,
                    Optional(ln = <<"b">>,
                             [paramnames |-> <<(<<"x">>), (<<"c">>)>>]))])

MergeRecords ==
    {MergeRecord(ln, mo, u, m) :
        ln \in {<<"a">>, <<"b">>},
        mo \in {None, <<"a">>, <<"<anonymous>">>},
        u \in BOOLEAN, m \in BOOLEAN}

-----------------------------------------------------------------------------
(* SpecMerge: one call of merge_doclets on a flat list.                    *)

Pending == [state |-> "pending"]

Idle ==
    /\ disk = EmptyDict
    /\ config = EmptyDict
    /\ loaded_structure_files = EmptyDict
    /\ reads = EmptyDict
    /\ directive = EmptyDict
    /\ log = EmptyBag
    /\ raised = NoException

InitMerge ==
    /\ doclets \in Seqs(MergeRecords, MaxDoclets)
    /\ ret = Pending
    /\ Idle

MergeCall ==
    /\ ret = Pending
    /\ ret' = [state |-> "done"] @@ merge_doclets(json_load(doclets))
    /\ UNCHANGED <<doclets, disk, config, loaded_structure_files, reads,
                   directive, log, raised>>

NextMerge == MergeCall

SpecMerge == InitMerge /\ [][NextMerge]_vars

-----------------------------------------------------------------------------
(* The doclets, patterns and options used as inputs of the directive.      *)

MaxFileLen == 2

MaxArgs == 2

\* class a
RecA ==
    [kind |-> "class", longname |-> <<"a">>, name |-> <<"a">>,
     comment |-> <<"c">>, description |-> <<" ", "d", " ", " ", "d">>,
     meta |-> meta_of(1, EmptyDict)]

\* class a.b, an inner class of a, without a location of its own
RecAB ==
    [kind |-> "class", longname |-> <<"a", ".", "b">>, name |-> <<"b">>,
     memberof |-> <<"a">>, comment |-> <<"c">>, description |-> <<"d">>]

\* class b, undocumented
RecB ==
    [kind |-> "class", longname |-> <<"b">>, name |-> <<"b">>,
     comment |-> <<>>, undocumented |-> TRUE, meta |-> meta_of(2, EmptyDict)]

\* function a.f (x, c, d) of class a, returning an a
RecF ==
    [kind |-> "function", longname |-> <<"a", ".", "f">>, name |-> <<"f">>,
     memberof |-> <<"a">>, comment |-> <<"c">>, description |-> <<"d">>,
     params |-> <<[name |-> <<"x">>, description |-> <<"d">>,
                   type |-> [names |-> <<(<<"A", "r", "r", "a", "y">>),
                                         (<<"n", "u", "l", "l">>)>>]],
                  [name |-> <<"c">>],
                  [name |-> <<"d">>,
                   type |-> [names |-> <<(<<"a", "\\", "b">>)>>]]>>,
     returns |-> <<[type |-> [names |-> <<(<<"a">>)>>]]>>,
     meta |-> meta_of(3, [paramnames |-> <<(<<"x">>), (<<"c">>), (<<"d">>)>>])]

\* attribute x of module a, of type a
RecX ==
    [kind |-> "member", longname |-> <<"module:", "a", ".", "x">>,
     name |-> <<"x">>, memberof |-> <<"module:", "a">>, comment |-> <<"c">>,
     description |-> <<"d">>, type |-> [names |-> <<(<<"a">>)>>]]

\* module a
RecM ==
    [kind |-> "module", longname |-> <<"module:", "a">>, name |-> <<"a">>,
     comment |-> <<"c">>, description |-> <<"d">>,
     meta |-> meta_of(4, EmptyDict)]

RenderRecords == {RecA, RecAB, RecB, RecF, RecX, RecM}

Patterns == {<<"a">>, <<"a", ".", "*">>, <<"b">>}

DirectiveNames ==
    {<<"js:auto", "class">>, <<"js:auto", "function">>, <<"js:auto", "module">>}

Paths == {<<"s1">>, <<"s2">>}

\* conf.py without any autojsdoc_* setting: the defaults of setup ()
DefaultConfig ==
    [structure_json |-> PyStr(<<>>), members |-> PyBool(FALSE),
     title |-> PyBool(FALSE)]

RenderOptions ==
    {[structure_json |-> PyStr(<<"s1">>)] @@ m @@ t :
        m \in {EmptyDict, [members |-> PyBool(TRUE)],
               [members |-> PyList(<<(<<"x">>)>>)]},
        t \in {EmptyDict, [title |-> PyBool(TRUE)]}}

-----------------------------------------------------------------------------
(* SpecRender: one invocation of the directive on one structure file.      *)

InitRender ==
    /\ doclets = <<>>
    /\ ret = Pending
    /\ disk \in {(<<"s1">> :> f) : f \in Seqs(RenderRecords, MaxFileLen)}
    /\ config = DefaultConfig
    /\ loaded_structure_files = EmptyDict
    /\ reads = [p \in Paths |-> 0]
    /\ directive = EmptyDict
    /\ log = EmptyBag
    /\ raised = NoException

NextRender ==
    \E name \in DirectiveNames, arguments \in Seqs(Patterns, MaxArgs),
       options \in RenderOptions :
        /\ directive = EmptyDict
        /\ arguments # <<>>
        /\ AutoDirective_run(name, arguments, options, TRUE)

SpecRender == InitRender /\ [][NextRender]_vars

-----------------------------------------------------------------------------
(* Spec: a Sphinx process that runs the directive any number of times on   *)
(* two structure files, which JSDoc may rewrite in between.  An exception  *)
(* that leaves run ends the build: nothing is invoked after it.            *)

SmallFiles == {<<RecA, RecAB>>, <<RecB, RecA>>, <<RecAB, RecAB>>}

SmallArguments == {<<(<<"a">>)>>, <<(<<"b">>), (<<"a">>)>>}

SmallOptions ==
    {EmptyDict, [structure_json |-> PyStr(<<"s1">>)],
     [structure_json |-> PyStr(<<"s2">>)]}

Sees ==
    {[link |-> l, description |-> <<"s">>] :
        l \in {<<"h", ":", "/", "/", "x">>, <<"a">>, <<"b">>,
               <<"a", ".", "b">>, <<"c">>}}

\* JSDoc writes the structure file at path anew
RegenerateFile(path, file) ==
    /\ raised = NoException
    /\ disk' = (path :> file) @@ disk
    /\ disk' # disk
    /\ UNCHANGED <<doclets, ret, config, loaded_structure_files, reads,
                   directive, log, raised>>

Init ==
    /\ doclets = <<>>
    /\ ret = Pending
    /\ disk \in UNION {[D -> SmallFiles] : D \in {{<<"s1">>}, Paths}}
    /\ config \in {DefaultConfig,
                   [DefaultConfig EXCEPT !.structure_json = PyStr(<<"s1">>)]}
    /\ loaded_structure_files = EmptyDict
    /\ reads = [p \in Paths |-> 0]
    /\ directive = EmptyDict
    /\ log = EmptyBag
    /\ raised = NoException

Next ==
    \/ \E arguments \in SmallArguments, options \in SmallOptions,
          parse_ok \in BOOLEAN :
           AutoDirective_run(<<"js:auto", "class">>, arguments, options,
                             parse_ok)
    \/ \E d \in Sees : JSSee_call(d)
    \/ \E path \in Paths, file \in SmallFiles : RegenerateFile(path, file)

Spec == Init /\ [][Next]_vars

-----------------------------------------------------------------------------
(* Claims about merge_doclets and make_forest, under SpecMerge.            *)

Returned == ret.state = "done" /\ ret.raised = NoException

\* the positions of the input whose longname no earlier record has
FirstSeen == {i \in 1..Len(doclets) :
                 \A j \in 1..(i - 1) : doclets[j].longname # doclets[i].longname}

SameLongname(i) == {j \in 1..Len(doclets) :
                       doclets[j].longname = doclets[i].longname}

InputLongnames == {doclets[i].longname : i \in 1..Len(doclets)}

\* C1: the list merge_doclets returns holds exactly the first-seen record of
\* every distinct longname of the input, in input order, the longname index
\* holds one entry per longname, naming that record, and a kept doclet still
\* has the longname it was read with.
C1_OneDocletPerLongname ==
    Returned =>
        /\ Range(ret.merged) = FirstSeen
        /\ Len(ret.merged) = Cardinality(InputLongnames)
        /\ \A k \in 1..(Len(ret.merged) - 1) : ret.merged[k] < ret.merged[k + 1]
        /\ \A k, l \in 1..Len(ret.merged) :
               ret.heap[ret.merged[k]].longname = ret.heap[ret.merged[l]].longname
                   => k = l
        /\ DOMAIN ret.self_longnames = InputLongnames
        /\ \A i \in FirstSeen :
               /\ ret.self_longnames[doclets[i].longname] = i
               /\ ret.heap[i].longname = doclets[i].longname

C1_Witness ==
    /\ Returned
    /\ Len(doclets) = 3
    /\ Len(ret.merged) = 2
    /\ doclets[1].longname = doclets[3].longname
    /\ doclets[1].longname # doclets[2].longname

\* C2: the undocumented flag of a merged doclet is the conjunction of the
\* undocumented flags of all input records with its longname, in whatever
\* order they come.
C2_UndocumentedIsConjunction ==
    Returned =>
        \A k \in 1..Len(ret.merged) :
            LET r == ret.merged[k] IN
            ret.heap[r].undocumented =
                (\A j \in SameLongname(r) : "undocumented" \in DOMAIN doclets[j])

C2_Witness ==
    /\ Returned
    /\ Len(doclets) = 2
    /\ doclets[1].longname = doclets[2].longname
    /\ "undocumented" \notin DOMAIN doclets[1]
    /\ "undocumented" \in DOMAIN doclets[2]
    /\ ret.merged = <<1>>
    /\ ret.heap[1].undocumented = FALSE

\* the error reports in the log about the doclet with this longname
ReportsAbout(ln) ==
    {e \in BagToSet(ret.log) :
        /\ e.level = "error"
        /\ Len(e.msg) >= Len(ln) + 2
        /\ e.msg[1] = "Could not link up object "
        /\ SubSeq(e.msg, 2, Len(ln) + 1) = ln
        /\ e.msg[Len(ln) + 2] = " to "}

RECURSIVE Copies(_, _)
Copies(bag, entries) ==
    IF entries = {} THEN 0
    ELSE LET e == CHOOSE e \in entries : TRUE
         IN  CopiesIn(e, bag) + Copies(bag, entries \ {e})

Unresolved(i) ==
    /\ "memberof" \in DOMAIN doclets[i]
    /\ doclets[i].memberof \notin InputLongnames

Documented(i) ==
    \E j \in SameLongname(i) : "undocumented" \notin DOMAIN doclets[j]

\* C3: a kept doclet whose memberof names no longname of the input has no
\* parent, is in no children list, is still in the returned list, and is
\* reported once if it is documented and not at all if it is not; the
\* doclets whose memberof resolves are linked all the same.
C3_UnresolvedParent ==
    Returned =>
        /\ \A i \in FirstSeen :
             Unresolved(i) =>
               /\ ret.heap[i].parent = NoDoclet
               /\ \A r \in DOMAIN ret.heap :
                      i \notin Range(ret.heap[r].children)
               /\ i \in Range(ret.merged)
               /\ Copies(ret.log, ReportsAbout(doclets[i].longname))
                      = IF Documented(i) THEN 1 ELSE 0
        /\ \A i \in FirstSeen :
             ("memberof" \in DOMAIN doclets[i] /\ ~ Unresolved(i)) =>
               ret.heap[i].parent = ret.self_longnames[doclets[i].memberof]

C3_Witness ==
    /\ Returned
    /\ Len(doclets) = 3
    /\ FirstSeen = {1, 2}
    /\ Unresolved(1) /\ Documented(1)
    /\ Copies(ret.log, ReportsAbout(doclets[1].longname)) = 1
    /\ ret.heap[1].parent = NoDoclet
    /\ ret.heap[2].parent = 1
    /\ ret.heap[1].children = <<2>>

\* a kept doclet whose memberof is the longname of some record of the input
Resolved(i) ==
    /\ "memberof" \in DOMAIN doclets[i]
    /\ doclets[i].memberof \in InputLongnames

\* the kept doclets that name the doclet at position p as what they belong to
MembersOf(p) ==
    {i \in FirstSeen : Resolved(i) /\ doclets[i].memberof = doclets[p].longname}

\* the place of a kept doclet in the list the merge pass built
MergePos(r) == CHOOSE k \in 1..Len(ret.merged) : ret.merged[k] = r

Occurrences(list, r) == Cardinality({k \in DOMAIN list : list[k] = r})

\* C11: after merge_doclets returns, every kept doclet whose memberof is the
\* longname of some input record, earlier or later in the input, has as its
\* parent the doclet the longname index holds for that memberof and occurs
\* exactly once in that parent's children; every children list holds just
\* the kept doclets that belong to its owner, in the order of the merge
\* pass; and no doclet has a parent that the longname index does not hold.
C11_TwoPassLinking ==
    Returned =>
        /\ \A i \in FirstSeen :
             Resolved(i) =>
               LET p == ret.self_longnames[doclets[i].memberof] IN
               /\ ret.heap[i].parent = p
               /\ Occurrences(ret.heap[p].children, i) = 1
        /\ \A r \in DOMAIN ret.heap :
             LET children == ret.heap[r].children IN
             /\ Range(children) = IF r \in FirstSeen THEN MembersOf(r) ELSE {}
             /\ \A k \in 1..(Len(children) - 1) :
                    MergePos(children[k]) < MergePos(children[k + 1])
             /\ ret.heap[r].parent # NoDoclet =>
                    \E ln \in DOMAIN ret.self_longnames :
                        ret.self_longnames[ln] = ret.heap[r].parent

C11_Witness ==
    /\ Returned
    /\ \E i \in FirstSeen :
          /\ Resolved(i)
          /\ ret.heap[i].parent > i
          /\ Len(ret.heap[ret.heap[i].parent].children) = 2
          /\ ret.heap[ret.heap[i].parent].children[1] = i

-----------------------------------------------------------------------------
(* Claims about the selection loop and the rendering, under SpecRender.    *)

Rendered == directive # EmptyDict /\ raised = NoException

Objtype == strip_directive(directive.name)

Longname(r) == directive.heap[r].longname

\* the arguments whose pattern finds the doclet at r
MatchedBy(r) ==
    {a \in 1..Len(directive.arguments) :
        re_search(directive.arguments[a], Longname(r))}

\* the doclets the directive selects: of its kind, found by some argument
Selected ==
    {r \in Range(directive.doclets) :
        <<directive.heap[r].kind>> = Objtype /\ MatchedBy(r) # {}}

FirstMatch(r) == CHOOSE a \in MatchedBy(r) : \A b \in MatchedBy(r) : a <= b

CallsOf(r) == {k \in 1..Len(directive.calls) : directive.calls[k][2] = r}

Declarations ==
    {".. js:class:: ", ".. js:function:: ", ".. js:method:: ",
     ".. js:attribute:: ", ".. js:module:: "}

IsDeclaration(line) ==
    \E i \in 1..Len(line.text) :
        /\ line.text[i] \in Declarations
        /\ \A j \in 1..(i - 1) : line.text[j] = " "

\* the lines of the buffer that declare the doclet at r
DeclarationsOf(r) ==
    {k \in 1..Len(directive.content) :
        /\ directive.content[k].by = <<r>>
        /\ IsDeclaration(directive.content[k])}

Emits(r) ==
    directive.heap[r].kind = "module" \/ ~ directive.heap[r].undocumented

\* C4 as stated: a doclet found by more than one pattern has its declaration
\* in the output buffer exactly once.
C4_DeclaredExactlyOnce ==
    Rendered =>
        \A r \in Selected :
            Cardinality(MatchedBy(r)) > 1 => Cardinality(DeclarationsOf(r)) = 1

\* C4, amended: the selection loop calls run for a selected doclet exactly
\* once, for the first pattern that finds it, and never for a later one; the
\* buffer holds no declaration of it if it is an undocumented non-module,
\* at least one otherwise, and more than one only if it is also the child
\* of a doclet that was declared.
C4_RenderedOncePerInvocation ==
    Rendered =>
        /\ \A k \in 1..Len(directive.calls) : directive.calls[k][2] \in Selected
        /\ \A r \in Selected :
            /\ Cardinality(CallsOf(r)) = 1
            /\ \A k \in CallsOf(r) : directive.calls[k][1] = FirstMatch(r)
            /\ Longname(r) \in directive.visited
            /\ ~ Emits(r) => DeclarationsOf(r) = {}
            /\ Emits(r) => DeclarationsOf(r) # {}
            /\ Cardinality(DeclarationsOf(r)) > 1 =>
                   /\ directive.heap[r].parent # NoDoclet
                   /\ DeclarationsOf(directive.heap[r].parent) # {}

C4_Witness ==
    /\ Rendered
    /\ directive.arguments = <<(<<"a">>), (<<"a", ".", "*">>)>>
    /\ \E r \in Selected :
          /\ MatchedBy(r) = {1, 2}
          /\ Cardinality(DeclarationsOf(r)) = 1
          /\ CallsOf(r) = {1}

\* lexicographic order by code point, read off CodePoints
RECURSIVE LexBefore(_, _)
LexBefore(s, t) ==
    IF t = <<>> THEN FALSE
    ELSE IF s = <<>> THEN TRUE
    ELSE IF Head(s) = Head(t) THEN LexBefore(Tail(s), Tail(t))
    ELSE \E i, j \in 1..Len(CodePoints) :
            i < j /\ CodePoints[i] = Head(s) /\ CodePoints[j] = Head(t)

Reverse(list) == [i \in 1..Len(list) |-> list[Len(list) + 1 - i]]

\* (argument, longname) of every top-level d.run, in the order of the calls
CallOrder(dir) ==
    [k \in 1..Len(dir.calls) |->
        <<dir.calls[k][1], dir.heap[dir.calls[k][2]].longname>>]

ReversedFile == merge_doclets(json_load(Reverse(disk[<<"s1">>])))

\* the same invocation on the structure file with its records reversed
OnReversedFile ==
    render_from([directive EXCEPT
                    !.doclets = ReversedFile.merged, !.heap = ReversedFile.heap,
                    !.content = <<>>, !.visited = {}, !.calls = <<>>],
                Objtype, 1)

\* C5: the top-level calls go argument by argument; within one argument
\* they go in ascending lexicographic order of longname; each selected
\* doclet is called for the first argument that finds it; and the order is
\* the same when the records of the file come in the opposite order (and
\* merge without an exception in that order too).
C5_TopLevelOrder ==
    Rendered =>
        /\ \A k \in 1..(Len(directive.calls) - 1) :
             LET c == directive.calls[k]
                 d == directive.calls[k + 1]
             IN  /\ c[1] <= d[1]
                 /\ c[1] = d[1] => LexBefore(Longname(c[2]), Longname(d[2]))
        /\ {directive.calls[k] : k \in 1..Len(directive.calls)}
               = {<<FirstMatch(r), r>> : r \in Selected}
        /\ ReversedFile.raised = NoException
              => CallOrder(OnReversedFile) = CallOrder(directive)

C5_Witness ==
    /\ Rendered
    /\ disk[<<"s1">>] = <<RecAB, RecA>>
    /\ directive.arguments = <<(<<"b">>), (<<"a">>)>>
    /\ CallOrder(directive) = <<(<<1, (<<"a", ".", "b">>)>>), (<<2, (<<"a">>)>>)>>

\* the closest of the doclet at r and its ancestors that has a meta
RECURSIVE Located(_, _)
Located(r, fuel) ==
    IF "meta" \in DOMAIN directive.heap[r] THEN r
    ELSE IF directive.heap[r].parent = NoDoclet \/ fuel = 0 THEN NoDoclet
    ELSE Located(directive.heap[r].parent, fuel - 1)

\* the origin tag '<path>/<filename>:<lineno>:<autojsdoc>' of the object
OriginTag(by) ==
    LET r == IF Len(by) = 1 THEN Located(by[1], Len(directive.heap))
             ELSE NoDoclet
    IN  IF r = NoDoclet THEN <<"<unknown>", ":", "0", ":<", "autojsdoc", ">">>
        ELSE directive.heap[r].meta.path \o <<"/">>
             \o directive.heap[r].meta.filename
             \o <<":", ToString(directive.heap[r].meta.lineno),
                  ":<", "autojsdoc", ">">>

\* C9 as stated: every line of the buffer, blank separator lines included,
\* carries the origin tag of the object that appended it.
C9_EveryLineTagged ==
    Rendered =>
        \A k \in 1..Len(directive.content) :
            directive.content[k].source = OriginTag(directive.content[k].by)

\* C9, amended: every line with text carries the origin tag built from the
\* source location of the object that appended it (a doclet's own meta,
\* else its closest ancestor's, else <unknown>:0; a parameter or return
\* object has neither meta nor parent, so <unknown>:0); every blank
\* separator line carries the empty tag.
C9_TextLinesTagged ==
    Rendered =>
        \A k \in 1..Len(directive.content) :
            LET line == directive.content[k] IN
            IF line.text = <<>> THEN line.source = <<>>
            ELSE line.source = OriginTag(line.by)

C9_Witness ==
    /\ Rendered
    /\ disk[<<"s1">>] = <<RecA, RecAB>>
    /\ \E k \in 1..Len(directive.content) :
          /\ directive.content[k].by = <<2>>
          /\ directive.content[k].text = spaces(3) \o <<".. js:class:: ", "b">>
          /\ directive.content[k].source
                 = <<"/", "s", "/", "f", ":", "1", ":<", "autojsdoc", ">">>
          /\ directive.content[k + 1].text = <<>>
          /\ directive.content[k + 1].source = <<>>

\* the text after the indentation
Unindented(text) == lstrip(text)

\* the names with one "|" between neighbours and every backslash doubled
RECURSIVE TypeUnion(_)
TypeUnion(names) ==
    IF names = <<>> THEN <<>>
    ELSE LET n == names[Len(names)]
             doubled == [i \in 1..(2 * Len(n)) |-> n[(i + 1) \div 2]]
             kept == {i \in 1..(2 * Len(n)) :
                         i % 2 = 1 \/ n[(i + 1) \div 2] = "\\"}
             name == [k \in 1..Cardinality(kept) |->
                         doubled[CHOOSE i \in kept :
                                     Cardinality({j \in kept : j <= i}) = k]]
         IN  IF Len(names) = 1 THEN name
             ELSE TypeUnion(SubSeq(names, 1, Len(names) - 1)) \o <<"|">> \o name

ParamLines ==
    {k \in 1..Len(directive.content) :
        /\ Len(directive.content[k].by) = 3
        /\ directive.content[k].by[2] = "params"}

ParamOf(k) ==
    LET by == directive.content[k].by
    IN  directive.heap[by[1]].params[by[3]]

TypeNames(param) ==
    IF "type" \in DOMAIN param THEN param.type.names ELSE <<>>

ArrayOrNull == <<(<<"A", "r", "r", "a", "y">>), (<<"n", "u", "l", "l">>)>>

\* C10 as stated: the param field of a parameter of type Array or null
\* holds the text Array\|null.
C10_EscapedPipe ==
    Rendered =>
        \A k \in ParamLines :
            TypeNames(ParamOf(k)) = ArrayOrNull =>
                str_contains(directive.content[k].text,
                             <<"A", "r", "r", "a", "y", "\\", "|",
                               "n", "u", "l", "l">>)

\* C10, amended: a parameter is rendered as one field ":param <types>
\* <name>: <description>" whose type text is the names joined by a bare
\* pipe, with every backslash of the names doubled; for the names Array and
\* null it is Array|null, without a backslash.
C10_PipeJoined ==
    Rendered =>
        /\ \A k \in ParamLines :
             LET p == ParamOf(k) IN
             /\ Unindented(directive.content[k].text) =
                    <<":param ">> \o TypeUnion(TypeNames(p)) \o <<" ">>
                    \o p.name \o <<": ">>
                    \o (IF "description" \in DOMAIN p THEN p.description
                        ELSE <<>>)
             /\ TypeNames(p) = ArrayOrNull =>
                    str_contains(directive.content[k].text,
                                 <<":param ", "A", "r", "r", "a", "y", "|",
                                   "n", "u", "l", "l", " ">>)
             /\ \A l \in ParamLines :
                    directive.content[l].by = directive.content[k].by => l = k
        /\ \A k \in 1..Len(directive.content) :
             LET by == directive.content[k].by IN
             (by = <<by[1]>> /\ directive.heap[by[1]].cls = "JSFunction"
              /\ IsDeclaration(directive.content[k])) =>
                 \A i \in 1..Len(directive.heap[by[1]].params) :
                     \E l \in ParamLines :
                         directive.content[l].by = <<by[1], "params", i>>

C10_Witness ==
    /\ Rendered
    /\ disk[<<"s1">>] = <<RecF>>
    /\ \E k \in ParamLines :
          directive.content[k].text =
              spaces(3) \o <<":param ", "A", "r", "r", "a", "y", "|",
                             "n", "u", "l", "l", " ", "x", ": ", "d">>

-----------------------------------------------------------------------------
(* Claims about the cache, the options and the see reference, under Spec.  *)

\* the invocation got as far as line 646
Loaded == directive # EmptyDict /\ raised \in {NoException, "Exception"}

PathOf(dir) == get_opt(dir, "structure_json").value

Triple(dir) ==
    [doclets |-> dir.doclets, names |-> dir.names,
     longnames |-> dir.longnames, heap |-> dir.heap]

\* C7: a path is opened and merged at most once; once a path has a cache
\* entry, no step changes the entry or reads the file again; and an
\* invocation that got its doclets works on the triple of the cache entry.
C7_ReadAtMostOnce ==
    /\ [](\A p \in Paths : reads[p] <= 1)
    /\ [](\A p \in Paths : reads[p] = 1 \/ p \notin DOMAIN loaded_structure_files)
    /\ [](Loaded => /\ PathOf(directive) \in DOMAIN loaded_structure_files
                    /\ Triple(directive) =
                           loaded_structure_files[PathOf(directive)])
    /\ [][\A p \in DOMAIN loaded_structure_files :
             /\ p \in DOMAIN loaded_structure_files'
             /\ loaded_structure_files'[p] = loaded_structure_files[p]
             /\ reads'[p] = reads[p]]_vars

\* a second invocation for a path whose file changed after it was cached
C7_Witness ==
    /\ Loaded
    /\ directive.hit
    /\ reads[PathOf(directive)] = 1
    /\ PathOf(directive) \in DOMAIN disk
    /\ merge_doclets(json_load(disk[PathOf(directive)])).heap # directive.heap

\* the invocation had no structure_json, neither as option nor in conf.py
MissingPath ==
    /\ directive # EmptyDict
    /\ "structure_json" \notin DOMAIN directive.options
    /\ directive.config.structure_json = PyStr(<<>>)

\* C8: when structure_json is missing from the options and from the
\* configuration, run logs an error and returns: no exception leaves it.
C8_MissingPathReported ==
    MissingPath =>
        /\ raised = NoException
        /\ \E e \in BagToSet(log) : e.level = "error"

\* the see record rendered with the directive, and the line it produced
SeeLine ==
    CHOOSE line \in Range(directive.content) :
        line.by = <<0, "see">> /\ line.text # <<>>

\* the class doclets of the loaded file that the link names
ClassesNamed(link) ==
    {r \in Range(directive.doclets) :
        /\ directive.heap[r].kind = "class"
        /\ link \in {directive.heap[r].name, directive.heap[r].longname}}

\* C6: a see link with "://" is emitted as it is, and a see link that is
\* the name or longname of a class doclet of the loaded structure file is
\* emitted as the cross-reference :js:class:<link in grave accents>.
C6_SeeResolved ==
    (Loaded /\ directive.see # <<>>) =>
        LET d == directive.see[1] IN
        /\ str_contains(d.link, <<":", "/", "/">>) =>
               SeeLine.text = <<"See: ">> \o d.link \o <<" ">> \o d.description
        /\ (~ str_contains(d.link, <<":", "/", "/">>)
            /\ ClassesNamed(d.link) # {}) =>
               SeeLine.text = <<"See: ", ":", "js:class", ":", backquote>>
                              \o d.link \o <<backquote, " ">> \o d.description

====
